---- MODULE Spec2Model ----
(***************************************************************************)
(* Media Organizer: the catalog store (src/src/utils/database.py) as it is *)
(* reached through DatabaseManager.get_session, and the command line entry *)
(* point (src/main.py).                                                    *)
(*                                                                         *)
(* The store is one SQLite file.  A session is a unit of work: objects     *)
(* added or loaded and modified in it reach the file only when the session *)
(* commits, statement by statement inside one write transaction.          *)
(* Float columns are modelled in hundredths (0.75 is 75).                  *)
(***************************************************************************)
EXTENDS Integers, Sequences, FiniteSets, TLC

\* ------------------------------------------------------------------ bounds
MaxNew == 2
MaxRetryCount == 2

\* The workers that hold a session of their own.
Sessions == {"w1", "w2"}
NoOwner == "nobody"

\* ------------------------------------------------------------------ schema
ProcessingStatus ==
    {"pending", "fingerprinting", "metadata_lookup", "ml_scoring",
     "review_needed", "organizing", "completed", "failed", "skipped"}

ReviewStatus == {"pending", "approved", "rejected", "corrected"}

\* (mutant) a mapped class left out of the metadata.
MetadataTablesWithoutFeedback ==
    {"media_files", "fingerprints", "media_metadata", "ml_features",
     "ml_models", "review_queue", "processing_logs"}

\* The tables Base.metadata holds: one per mapped class.
MetadataTables ==
    {"media_files", "fingerprints", "media_metadata", "ml_features",
     "ml_models", "review_queue", "ml_feedback", "processing_logs"}

\* SQL NULL / Python None in a nullable column.
None == "None"

\* Column defaults of a MediaFile that is added without those attributes.
MediaFileDefaults ==
    [status |-> "pending", confidence_score |-> 0, output_path |-> None,
     error_message |-> None, retry_count |-> 0]

MediaFileAttrs == DOMAIN MediaFileDefaults

NewMediaFile(id, path, hash) ==
    [id |-> id, original_path |-> path, file_hash |-> hash,
     attrs |-> MediaFileDefaults]

NewReviewQueue(id, fid, score) ==
    [id |-> id, media_file_id |-> fid, review_status |-> "pending",
     confidence_score |-> score]

\* ------------------------------------------------------------------ state
VARIABLES
    db,      \* the SQLite file: existing table name -> set of committed rows
    wtxn,    \* the open write transaction: its owner and its uncommitted image
    sess,    \* per session: the unit of work being built or flushed
    result,  \* per session: how its last commit() ended
    cli,     \* the running invocation of main()
    env,     \* what main() finds outside the process
    conf,    \* the config and secrets files and what ConfigManager.load made of them
    logger   \* the process's logger: the global manager and its sinks

vars == <<db, wtxn, sess, result, cli, env, conf, logger>>

storeVars == <<db, wtxn, sess, result>>
cliVars == <<cli, env>>

\* The tables of the 1:1 children of a MediaFile: each has
\* media_file_id = Column(Integer, ForeignKey('media_files.id'), unique=True),
\* a nullable column; 0 stands for a NULL media_file_id (ids start at 1).
ChildTables == {"fingerprints", "media_metadata", "ml_features"}

\* A nullable Float column: NULL, or one value in hundredths.
Null == {}
Float(x) == {x}

\* Column defaults of MediaMetadata.
MediaMetadataDefaults == [is_italian |-> FALSE, italian_confidence |-> Float(0)]

\* A Fingerprint, MediaMetadata or MLFeatures object as the caller builds it;
\* payload stands for its data columns, the last two are MediaMetadata's.
NewChild(table, fid, payload, is_italian, italian_confidence) ==
    [table |-> table, media_file_id |-> fid, payload |-> payload,
     is_italian |-> is_italian, italian_confidence |-> italian_confidence]

NoChild == NewChild("none", 0, None, FALSE, Null)

\* The row the INSERT of object c stores.  The ORM leaves an attribute that is
\* None out of the INSERT when its column has a default, and the default
\* fills the column.
ChildRow(id, c) ==
    IF c.table = "media_metadata"
    THEN [id |-> id, media_file_id |-> c.media_file_id, payload |-> c.payload,
          is_italian |-> c.is_italian,
          italian_confidence |->
              IF c.italian_confidence = Null
              THEN MediaMetadataDefaults.italian_confidence
              ELSE c.italian_confidence]
    ELSE [id |-> id, media_file_id |-> c.media_file_id, payload |-> c.payload]

\* ------------------------------------------------------------ the database
\* A database file in which no table exists yet.
FreshDb == [t \in {} |-> {}]

\* The rows of table t; a table that does not exist holds none.
Rows(dbv, t) == IF t \in DOMAIN dbv THEN dbv[t] ELSE {}

WithRows(dbv, t, rows) == [u \in DOMAIN dbv |-> IF u = t THEN rows ELSE dbv[u]]

\* INTEGER PRIMARY KEY: SQLite gives a new row the largest id plus one.
NextId(rows) ==
    IF rows = {} THEN 1
    ELSE (CHOOSE m \in {r.id : r \in rows} : \A r \in rows : r.id <= m) + 1

\* (mutant) drop_all before create_all.
CreateAllFromScratch(dbv) == [t \in MetadataTables |-> {}]

\* create_all (checkfirst): every table of the metadata that is missing is
\* created empty; a table that exists is left as it is.
CreateAll(dbv) ==
    [t \in DOMAIN dbv \cup MetadataTables |->
        IF t \in DOMAIN dbv THEN dbv[t] ELSE {}]

NoTxn == [owner |-> NoOwner, image |-> FreshDb]

\* (mutant) a connection in autocommit: what was written stays written.
RollbackKeepsWrites(dbv, image) == image

\* COMMIT publishes the transaction's image; ROLLBACK discards it.
CommitImage(dbv, image) == image
RollbackImage(dbv, image) == dbv

\* ---------------------------------------------------------------- sessions
NoWork ==
    [loaded |-> FALSE, id |-> 0, orig |-> MediaFileDefaults,
     cur |-> MediaFileDefaults, new_files |-> <<>>, new_reviews |-> <<>>,
     new_children |-> <<>>, flushing |-> FALSE, stmts |-> <<>>]

\* The attributes of the loaded object whose value differs from the loaded one.
Changed(w) == {a \in MediaFileAttrs : w.cur[a] # w.orig[a]}

Stmt(op, id, path, hash, cols, attrs, score) ==
    [op |-> op, id |-> id, path |-> path, hash |-> hash, cols |-> cols,
     attrs |-> attrs, score |-> score, child |-> NoChild]

ChildStmt(c) ==
    [Stmt("insert_child", c.media_file_id, None, None, {}, MediaFileDefaults, 0)
        EXCEPT !.child = c]

UpdateStmts(w) ==
    IF w.loaded /\ Changed(w) # {}
    THEN << Stmt("update_file", w.id, None, None, Changed(w), w.cur, 0) >>
    ELSE << >>

InsertFileStmts(w) ==
    [i \in 1..Len(w.new_files) |->
        Stmt("insert_file", 0, w.new_files[i].original_path,
             w.new_files[i].file_hash, {}, MediaFileDefaults, 0)]

InsertReviewStmts(w) ==
    [i \in 1..Len(w.new_reviews) |->
        Stmt("insert_review", w.new_reviews[i].media_file_id, None, None, {},
             MediaFileDefaults, w.new_reviews[i].confidence_score)]

InsertChildStmts(w) ==
    [i \in 1..Len(w.new_children) |-> ChildStmt(w.new_children[i])]

\* The flush plan of a unit of work: media_files before its child tables, and
\* per table the UPDATEs before the INSERTs.
UnitOfWork(w) ==
    UpdateStmts(w) \o InsertFileStmts(w) \o InsertReviewStmts(w)
        \o InsertChildStmts(w)

\* (mutant) file_hash without unique=True.
FileInsertAllowedPathOnly(rows, st) ==
    \A r \in rows : r.original_path # st.path

\* UNIQUE(original_path), UNIQUE(file_hash) on media_files.
FileInsertAllowed(rows, st) ==
    \A r \in rows : r.original_path # st.path /\ r.file_hash # st.hash

\* UNIQUE(media_file_id) on review_queue.  The foreign key is declared, and
\* SQLite does not enforce it unless the connection asks for it.
ReviewInsertAllowed(rows, st) ==
    \A r \in rows : r.media_file_id # st.id

\* UNIQUE(media_file_id) on fingerprints, media_metadata and ml_features: NULLs
\* are distinct from each other, and the foreign key is not enforced.
ChildInsertAllowed(rows, st) ==
    st.id = 0 \/ \A r \in rows : r.media_file_id # st.id

StmtAllowed(image, st) ==
    CASE st.op = "insert_file" -> FileInsertAllowed(Rows(image, "media_files"), st)
      [] st.op = "insert_review" -> ReviewInsertAllowed(Rows(image, "review_queue"), st)
      [] st.op = "insert_child" -> ChildInsertAllowed(Rows(image, st.child.table), st)
      [] OTHER -> TRUE

\* UPDATE media_files SET <changed columns> WHERE id = ?
UpdatedFiles(rows, st) ==
    {IF r.id = st.id
       THEN [r EXCEPT !.attrs =
                [a \in MediaFileAttrs |->
                    IF a \in st.cols THEN st.attrs[a] ELSE r.attrs[a]]]
       ELSE r : r \in rows}

ApplyStmt(image, st) ==
    CASE st.op = "update_file" ->
            WithRows(image, "media_files",
                     UpdatedFiles(Rows(image, "media_files"), st))
      [] st.op = "insert_file" ->
            WithRows(image, "media_files",
                     Rows(image, "media_files") \cup
                     {NewMediaFile(NextId(Rows(image, "media_files")),
                                   st.path, st.hash)})
      [] st.op = "insert_child" ->
            WithRows(image, st.child.table,
                     Rows(image, st.child.table) \cup
                     {ChildRow(NextId(Rows(image, st.child.table)), st.child)})
      [] OTHER ->
            WithRows(image, "review_queue",
                     Rows(image, "review_queue") \cup
                     {NewReviewQueue(NextId(Rows(image, "review_queue")),
                                     st.id, st.score)})

NoStmt == Stmt("none", 0, None, None, {}, MediaFileDefaults, 0)

\* How commit() ended: "ok", or the exception it raised; IntegrityError carries
\* the statement the database refused.
Outcome(kind, st) == [outcome |-> kind, stmt |-> st]
NoResult == Outcome("none", NoStmt)

\* session.add(MediaFile(original_path=path, file_hash=hash, ...))
AddFile(s, path, hash) ==
    /\ ~sess[s].flushing
    /\ Len(sess[s].new_files) + Len(sess[s].new_reviews)
          + Len(sess[s].new_children) < MaxNew
    /\ sess' = [sess EXCEPT ![s].new_files =
                   Append(@, [original_path |-> path, file_hash |-> hash])]
    /\ result' = [result EXCEPT ![s] = NoResult]
    /\ UNCHANGED <<db, wtxn>>

\* session.add(ReviewQueue(media_file_id=fid, confidence_score=score))
AddReview(s, fid, score) ==
    /\ ~sess[s].flushing
    /\ Len(sess[s].new_files) + Len(sess[s].new_reviews)
          + Len(sess[s].new_children) < MaxNew
    /\ sess' = [sess EXCEPT ![s].new_reviews =
                   Append(@, [media_file_id |-> fid, confidence_score |-> score])]
    /\ result' = [result EXCEPT ![s] = NoResult]
    /\ UNCHANGED <<db, wtxn>>

\* session.add(Fingerprint(media_file_id=...)), and the same for MediaMetadata
\* and MLFeatures.
AddChild(s, c) ==
    /\ ~sess[s].flushing
    /\ Len(sess[s].new_files) + Len(sess[s].new_reviews)
          + Len(sess[s].new_children) < MaxNew
    /\ sess' = [sess EXCEPT ![s].new_children = Append(@, c)]
    /\ result' = [result EXCEPT ![s] = NoResult]
    /\ UNCHANGED <<db, wtxn>>

\* session.get(MediaFile, id): the committed row enters the identity map.
Load(s, id) ==
    /\ ~sess[s].flushing
    /\ ~sess[s].loaded
    /\ \E r \in Rows(db, "media_files") :
          /\ r.id = id
          /\ sess' = [sess EXCEPT ![s].loaded = TRUE, ![s].id = id,
                                  ![s].orig = r.attrs, ![s].cur = r.attrs]
    /\ result' = [result EXCEPT ![s] = NoResult]
    /\ UNCHANGED <<db, wtxn>>

\* media_file.<a> = v on the loaded object.
SetAttr(s, a, v) ==
    /\ ~sess[s].flushing
    /\ sess[s].loaded
    /\ sess[s].cur[a] # v
    /\ sess' = [sess EXCEPT ![s].cur[a] = v]
    /\ UNCHANGED <<db, wtxn, result>>

\* session.commit(), first part: the flush opens the write transaction.  A
\* second writer finds the file locked, and a file without the tables has
\* nothing to write to: both raise OperationalError and the work is lost.
FlushBegin(s) ==
    /\ ~sess[s].flushing
    /\ UnitOfWork(sess[s]) # << >>
    /\ IF wtxn.owner # NoOwner \/ ~(MetadataTables \subseteq DOMAIN db)
       THEN /\ sess' = [sess EXCEPT ![s] = NoWork]
            /\ result' = [result EXCEPT ![s] = Outcome("OperationalError", NoStmt)]
            /\ UNCHANGED <<db, wtxn>>
       ELSE /\ wtxn' = [owner |-> s, image |-> db]
            /\ sess' = [sess EXCEPT ![s].flushing = TRUE,
                                    ![s].stmts = UnitOfWork(sess[s])]
            /\ UNCHANGED <<db, result>>

\* The flush emits its next statement inside the transaction.  A statement a
\* constraint refuses raises IntegrityError and the transaction is rolled back.
ExecStmt(s) ==
    /\ sess[s].flushing
    /\ wtxn.owner = s
    /\ sess[s].stmts # << >>
    /\ LET st == Head(sess[s].stmts) IN
       IF StmtAllowed(wtxn.image, st)
       THEN /\ wtxn' = [wtxn EXCEPT !.image = ApplyStmt(wtxn.image, st)]
            /\ sess' = [sess EXCEPT ![s].stmts = Tail(@)]
            /\ UNCHANGED <<db, result>>
       ELSE /\ db' = RollbackImage(db, wtxn.image)
            /\ wtxn' = NoTxn
            /\ sess' = [sess EXCEPT ![s] = NoWork]
            /\ result' = [result EXCEPT ![s] = Outcome("IntegrityError", st)]

\* session.commit(), last part: COMMIT.  The session's objects are expired.
CommitTxn(s) ==
    /\ sess[s].flushing
    /\ wtxn.owner = s
    /\ sess[s].stmts = << >>
    /\ db' = CommitImage(db, wtxn.image)
    /\ wtxn' = NoTxn
    /\ sess' = [sess EXCEPT ![s] = NoWork]
    /\ result' = [result EXCEPT ![s] = Outcome("ok", NoStmt)]

\* The caller fails, or its process dies, before commit() has returned: the
\* session is closed and whatever its transaction wrote is rolled back.
Abort(s) ==
    /\ sess[s] # NoWork
    /\ db' = IF wtxn.owner = s THEN RollbackImage(db, wtxn.image) ELSE db
    /\ wtxn' = IF wtxn.owner = s THEN NoTxn ELSE wtxn
    /\ sess' = [sess EXCEPT ![s] = NoWork]
    /\ result' = [result EXCEPT ![s] = NoResult]

\* ------------------------------------------------------------- the logger
\* _logger_manager is None until init_logger has run in the process.  The
\* sinks loguru writes to (console, app.log, error.log, audit.log) may stop
\* taking writes; written: an audit line reached audit.log; reported: loguru
\* caught a sink's error and printed it on stderr.
NoLogger ==
    [manager |-> FALSE, sink_ok |-> TRUE, written |-> FALSE, reported |-> FALSE]

\* init_logger: the global manager is set and the handlers are added.
LoggerManagerInit(l) == [l EXCEPT !.manager = TRUE]

\* LoggerManager.audit: logger.bind(audit=True).info(...).  The handlers are
\* added with loguru's default catch=True: a sink that fails is reported on
\* stderr and nothing is raised.
LoggerManagerAudit(l) ==
    IF l.sink_ok THEN [l EXCEPT !.written = TRUE] ELSE [l EXCEPT !.reported = TRUE]

\* ------------------------------------------------------------- main.py
\* How main() is invoked: the default run, --init-db, --version, or an
\* argument line argparse refuses.
Modes == {"run", "init_db", "version", "usage"}

\* What the invocation finds: the config file (absent, refused by the Config
\* model, not a mapping at all, or accepted), whether the database file can be
\* opened, whether the cache, models, queue and log directories can be
\* created, whether the media folders can be, and the input and output folders
\* that exist.
ConfigStates == {"missing", "invalid", "malformed", "valid"}
Folders == {"input_folder", "output_folder"}

\* The exceptions of the program that derive from Exception; SystemExit and
\* KeyboardInterrupt derive from BaseException only.
ExceptionClasses ==
    {"FileNotFoundError", "ValueError", "TypeError", "OSError", "OperationalError"}

CliIdle ==
    [pc |-> "idle", mode |-> "run", ret |-> -1, exc |-> "none",
     escaped |-> "none", at |-> "none", steps |-> << >>, found |-> "n/a"]

Running == cli.pc \notin {"idle", "returned", "raised"}

\* ConfigManager.load: the first failure it meets, or "ok".
LoadOutcome(e) ==
    CASE e.config = "missing" -> "FileNotFoundError"
      [] e.config = "malformed" -> "TypeError"
      [] e.config = "invalid" -> "ValueError"
      [] ~e.fs_ok -> "OSError"
      [] OTHER -> "ok"

\* (mutant) the ValueError clause returning 0.
HandlerExitValueErrorZero(exc) ==
    CASE exc = "FileNotFoundError" -> 1
      [] exc = "ValueError" -> 0
      [] OTHER -> 1

\* The except clauses of main(): each of them returns 1.
HandlerExit(exc) ==
    CASE exc = "FileNotFoundError" -> 1
      [] exc = "ValueError" -> 1
      [] OTHER -> 1

\* An exception raised inside main()'s try block: one that derives from
\* Exception is caught and becomes the exit code; any other leaves main().
Raised(c, exc) ==
    IF exc \in ExceptionClasses
    THEN [c EXCEPT !.pc = "returned", !.ret = HandlerExit(exc), !.exc = exc,
                   !.at = c.pc]
    ELSE [c EXCEPT !.pc = "raised", !.escaped = exc, !.exc = exc, !.at = c.pc]

Returned(c, code) == [c EXCEPT !.pc = "returned", !.ret = code]

Done(c, step, pc) == [c EXCEPT !.steps = Append(@, step), !.pc = pc]

\* What create_all finds in the database file.
Found(dbv) ==
    IF DOMAIN dbv = {} THEN "fresh"
    ELSE IF \A t \in DOMAIN dbv : dbv[t] = {} THEN "schema" ELSE "rows"

\* A new process runs main() with some argument line, in some environment;
\* folders and the database file outlive the processes.
Invoke(mode, cfg, dbok, fsok, mediaok) ==
    /\ ~Running
    /\ cli' = [CliIdle EXCEPT !.pc = "parse", !.mode = mode]
    /\ env' = [env EXCEPT !.config = cfg, !.db_ok = dbok, !.fs_ok = fsok,
                          !.media_ok = mediaok]
    /\ logger' = NoLogger
    /\ UNCHANGED <<storeVars, conf>>

\* parser.parse_args(), before the try block: --version prints and exits 0,
\* a refused argument line exits 2, both by raising SystemExit.
ParseArgs ==
    /\ cli.pc = "parse"
    /\ cli' = CASE cli.mode = "version" ->
                     [cli EXCEPT !.pc = "raised", !.escaped = "SystemExit(0)",
                                 !.exc = "SystemExit", !.at = "parse"]
                [] cli.mode = "usage" ->
                     [cli EXCEPT !.pc = "raised", !.escaped = "SystemExit(2)",
                                 !.exc = "SystemExit", !.at = "parse"]
                [] cli.mode = "init_db" -> [cli EXCEPT !.pc = "initdb_load"]
                [] OTHER -> [cli EXCEPT !.pc = "ctor_load"]
    /\ UNCHANGED <<conf, logger, env, db, wtxn, sess, result>>

\* load_config(args.config), in --init-db and in MediaOrganizer.__init__.
LoadConfig ==
    /\ cli.pc \in {"initdb_load", "ctor_load"}
    /\ cli' = IF LoadOutcome(env) = "ok"
              THEN Done(cli, "load_config",
                        IF cli.pc = "initdb_load" THEN "initdb_create"
                        ELSE "ctor_logger")
              ELSE Raised(cli, LoadOutcome(env))
    /\ UNCHANGED <<conf, logger, env, db, wtxn, sess, result>>

\* init_logger(...)
InitLogger ==
    /\ cli.pc = "ctor_logger"
    /\ cli' = Done(cli, "init_logger", "ctor_database")
    /\ logger' = LoggerManagerInit(logger)
    /\ UNCHANGED <<conf, env, db, wtxn, sess, result>>

\* init_database(config.paths.database): DatabaseManager(db_path) and
\* create_tables().  --init-db then prints and returns 0.
InitDatabase ==
    /\ cli.pc \in {"initdb_create", "ctor_database"}
    /\ IF env.db_ok
       THEN /\ db' = CreateAll(db)
            /\ cli' = LET c == [Done(cli, "init_database", "ctor_validate")
                                  EXCEPT !.found = Found(db)]
                      IN IF cli.pc = "initdb_create" THEN Returned(c, 0) ELSE c
       ELSE /\ cli' = Raised(cli, "OperationalError")
            /\ db' = db
    /\ UNCHANGED <<conf, logger, env, wtxn, sess, result>>

\* MediaOrganizer._validate_paths: a missing input or output folder is created.
ValidatePaths ==
    /\ cli.pc = "ctor_validate"
    /\ IF Folders \subseteq env.dirs \/ env.media_ok
       THEN /\ env' = [env EXCEPT !.dirs = @ \cup Folders]
            /\ cli' = Done(cli, "validate_paths", "run_body")
       ELSE /\ cli' = Raised(cli, "OSError")
            /\ env' = env
    /\ UNCHANGED <<storeVars, conf, logger>>

\* MediaOrganizer.run, the try block: the pipeline is not implemented, the
\* body logs and falls through to the finally clause.
RunBody ==
    /\ cli.pc = "run_body"
    /\ cli' = Done(cli, "run", "run_shutdown")
    /\ UNCHANGED <<conf, logger, env, db, wtxn, sess, result>>

\* The finally clause of run(): shutdown(); run() returns and main() returns 0.
Shutdown ==
    /\ cli.pc = "run_shutdown"
    /\ cli' = Returned(Done(cli, "shutdown", "run_shutdown"), 0)
    /\ UNCHANGED <<conf, logger, env, db, wtxn, sess, result>>

\* Ctrl+C while main() runs.  Inside run()'s try block it is caught and the
\* shutdown follows; anywhere else KeyboardInterrupt leaves main().
Interrupt ==
    /\ Running
    /\ cli' = IF cli.pc = "run_body"
              THEN [cli EXCEPT !.pc = "run_shutdown", !.exc = "KeyboardInterrupt",
                               !.at = "run_body"]
              ELSE Raised(cli, "KeyboardInterrupt")
    /\ UNCHANGED <<conf, logger, env, db, wtxn, sess, result>>

\* ------------------------------------------------------------ input sets
Paths == {"/in/song.mp3", "/in/copy.mp3"}
Hashes == {"abc123", "def456"}
\* One row per path at most: the ids a worker can name.
FileIds == 1..Cardinality(Paths)
\* confidence scores in hundredths: two outside [0, 1], three inside.
Scores == {-10, 0, 60, 100, 150}

Envs ==
    [config : ConfigStates, db_ok : BOOLEAN, fs_ok : BOOLEAN,
     media_ok : BOOLEAN, dirs : SUBSET Folders]

\* ------------------------------------------------------- the configuration
\* A value as yaml.safe_load returns it, with its Python type; "missing" marks
\* a key the mapping does not hold.
Val(type, v) == [type |-> type, v |-> v]
Missing == Val("missing", "")
PyNone == Val("NoneType", "")
PyStr(v) == Val("str", v)
PyInt(v) == Val("int", v)

\* The truth value Python gives a loaded value.
Truthy(x) ==
    CASE x.type = "str" -> x.v # ""
      [] x.type = "int" -> x.v # "0"
      [] OTHER -> FALSE

\* ReviewConfig: the two thresholds, in hundredths, with their defaults and the
\* range Field(ge=0.0, le=1.0) accepts.
ReviewDefaults == [confidence_threshold |-> 75, auto_approve_above |-> 95]
\* (mutant) Field(le=1.0) without ge=0.0.
ReviewFieldOkNoLowerBound(x) == x <= 100
ReviewFieldOk(x) == x >= 0 /\ x <= 100

\* The review section of a config file: not given, or given with both values.
ReviewNotGiven == [given |-> FALSE, confidence_threshold |-> 0, auto_approve_above |-> 0]
ReviewValues == {-5, 0, 75, 95, 100, 105}
ReviewSections ==
    {ReviewNotGiven} \cup
    [given : {TRUE}, confidence_threshold : ReviewValues,
     auto_approve_above : ReviewValues]

\* The main config file: missing, empty (safe_load gives None) or a mapping
\* with its paths section (configured, or left at the placeholder), its
\* metadata section, the tmdb section in it and the api_key in that.
NoMain(file) ==
    [file |-> file, paths |-> "configured", metadata |-> "missing",
     tmdb |-> "missing", api_key |-> Missing, review |-> ReviewNotGiven]
MainKeys == {Missing, PyNone, PyStr(""), PyStr("cfg-key")}
MainFiles ==
    {NoMain("missing"), NoMain("empty")} \cup
    { [NoMain("mapping") EXCEPT !.paths = p, !.metadata = m, !.review = r] :
        p \in {"configured", "placeholder"}, m \in {"missing", "None", "mapping"},
        r \in ReviewSections } \cup
    { [NoMain("mapping") EXCEPT !.paths = p, !.metadata = "mapping",
                                !.tmdb = t, !.review = r] :
        p \in {"configured", "placeholder"}, t \in {"None", "mapping"},
        r \in ReviewSections } \cup
    { [NoMain("mapping") EXCEPT !.paths = p, !.metadata = "mapping",
                                !.tmdb = "mapping", !.api_key = k, !.review = r] :
        p \in {"configured", "placeholder"}, k \in MainKeys, r \in ReviewSections }

\* config/secrets.yaml: missing, empty, not YAML, a sequence that lists the
\* key's name, or a mapping with or without tmdb_api_key.
NoSecrets(file) == [file |-> file, tmdb_api_key |-> Missing]
SecretKeys == {Missing, PyNone, PyStr(""), PyStr("secret-key"), PyInt("0"), PyInt("12345")}
SecretsFiles ==
    {NoSecrets("missing"), NoSecrets("empty"), NoSecrets("malformed"),
     NoSecrets("sequence")} \cup
    { [file |-> "mapping", tmdb_api_key |-> k] : k \in SecretKeys }

\* What load() gives: the exception it raised ("none": it returned), and of
\* the Config it returned the api_key and the review thresholds.
Loaded(exc, key, review) == [exc |-> exc, api_key |-> key, review |-> review]
LoadFailed(exc) == Loaded(exc, "", ReviewDefaults)
NotLoaded == LoadFailed("not loaded")

\* load(), lines 150-161: the secrets file is read when it exists and a truthy
\* tmdb_api_key of it is written into the dict of the main file, the metadata
\* and tmdb mappings being created when the dict lacks them.  What is not a
\* mapping on the way (an empty main file, "metadata:" or "tmdb:" without a
\* value, a secrets file that is a sequence) raises TypeError.
Merged(exc, main) == [exc |-> exc, main |-> main]
MergeSecrets(main, secrets) ==
    CASE secrets.file \in {"missing", "empty"} -> Merged("none", main)
      [] secrets.file = "malformed" -> Merged("YAMLError", main)
      [] secrets.file = "sequence" -> Merged("TypeError", main)
      [] OTHER ->
          IF secrets.tmdb_api_key = Missing \/ ~Truthy(secrets.tmdb_api_key)
          THEN Merged("none", main)
          ELSE IF \/ main.file = "empty"
                  \/ main.metadata = "None"
                  \/ main.metadata = "mapping" /\ main.tmdb = "None"
               THEN Merged("TypeError", main)
               ELSE Merged("none", [main EXCEPT !.metadata = "mapping",
                                                !.tmdb = "mapping",
                                                !.api_key = secrets.tmdb_api_key])

\* Config(**config_dict), line 164: the pydantic models refuse a placeholder
\* path, a section that is None, an api_key that is not a str and a threshold
\* outside its range (ValidationError, a ValueError); fields not given take
\* their defaults.
ParseConfig(d) ==
    IF d.file = "empty" THEN LoadFailed("TypeError")
    ELSE IF \/ d.paths = "placeholder"
            \/ d.metadata = "None"
            \/ d.tmdb = "None"
            \/ d.api_key.type \notin {"missing", "str"}
            \/ /\ d.review.given
               /\ ~(/\ ReviewFieldOk(d.review.confidence_threshold)
                    /\ ReviewFieldOk(d.review.auto_approve_above))
         THEN LoadFailed("ValueError")
         ELSE Loaded("none",
                     IF d.api_key.type = "missing" THEN "" ELSE d.api_key.v,
                     IF d.review.given
                     THEN [confidence_threshold |-> d.review.confidence_threshold,
                           auto_approve_above |-> d.review.auto_approve_above]
                     ELSE ReviewDefaults)

\* ConfigManager.load: the file check, the merge, the validation and the
\* creation of the cache, models, queue and log directories.
ConfigManagerLoad(main, secrets, fs_ok) ==
    IF main.file = "missing" THEN LoadFailed("FileNotFoundError")
    ELSE LET m == MergeSecrets(main, secrets)
         IN IF m.exc # "none" THEN LoadFailed(m.exc)
            ELSE LET c == ParseConfig(m.main)
                 IN IF c.exc = "none" /\ ~fs_ok THEN LoadFailed("OSError") ELSE c

\* No config file has been looked at.
NoConf ==
    [main |-> NoMain("missing"), secrets |-> NoSecrets("missing"),
     fs_ok |-> TRUE, out |-> NotLoaded]
ConfInputs ==
    [main : MainFiles, secrets : SecretsFiles, fs_ok : BOOLEAN, out : {NotLoaded}]

\* load_config(path) is called on the files found.
CallLoad ==
    /\ conf.out = NotLoaded
    /\ conf' = [conf EXCEPT !.out = ConfigManagerLoad(conf.main, conf.secrets,
                                                      conf.fs_ok)]
    /\ UNCHANGED <<storeVars, cliVars, logger>>


\* A worker process calls init_logger.
CallInitLogger ==
    /\ ~logger.manager
    /\ logger' = LoggerManagerInit(logger)
    /\ UNCHANGED <<storeVars, cliVars, conf>>

\* audit_log(message), called by worker s in the course of its operation:
\* RuntimeError is raised into the caller while no manager exists.
AuditLog(s) ==
    /\ ~sess[s].flushing
    /\ IF ~logger.manager
       THEN /\ result' = [result EXCEPT ![s] = Outcome("RuntimeError", NoStmt)]
            /\ UNCHANGED logger
       ELSE /\ logger' = LoggerManagerAudit(logger)
            /\ UNCHANGED result
    /\ UNCHANGED <<db, wtxn, sess, cliVars, conf>>

\* The log files stop or start taking writes (disk full, folder removed).
SinkChanges ==
    /\ logger' = [logger EXCEPT !.sink_ok = ~@]
    /\ UNCHANGED <<storeVars, cliVars, conf>>

\* -------------------------------------------------------- specifications
StoreIdle ==
    /\ wtxn = NoTxn
    /\ sess = [s \in Sessions |-> NoWork]
    /\ result = [s \in Sessions |-> NoResult]

\* The program from a database path no one has used yet.
Init ==
    /\ db = FreshDb
    /\ StoreIdle
    /\ cli = CliIdle
    /\ env \in Envs
    /\ conf = NoConf
    /\ logger = NoLogger

\* The store as init_database leaves it, with no invocation of main() around.
InitStore ==
    /\ db = CreateAll(FreshDb)
    /\ StoreIdle
    /\ cli = CliIdle
    /\ env = [config |-> "valid", db_ok |-> TRUE, fs_ok |-> TRUE,
              media_ok |-> TRUE, dirs |-> Folders]
    /\ conf = NoConf
    /\ logger = NoLogger

Transact(s) == FlushBegin(s) \/ ExecStmt(s) \/ CommitTxn(s) \/ Abort(s)

NextCli ==
    \/ \E mode \in Modes, cfg \in ConfigStates, dbok \in BOOLEAN,
          fsok \in BOOLEAN, mediaok \in BOOLEAN :
          Invoke(mode, cfg, dbok, fsok, mediaok)
    \/ ParseArgs
    \/ LoadConfig
    \/ InitLogger
    \/ InitDatabase
    \/ ValidatePaths
    \/ RunBody
    \/ Shutdown
    \/ Interrupt

\* main() and a worker that ingests one file.
Next ==
    \/ NextCli
    \/ /\ \/ AddFile("w1", "/in/song.mp3", "abc123")
          \/ Transact("w1")
       /\ UNCHANGED <<cliVars, conf, logger>>

Spec == Init /\ [][Next]_vars

\* Workers that move one file through its processing states.
NextTransition ==
    /\ \E s \in Sessions :
          \/ AddFile(s, "/in/song.mp3", "abc123")
          \/ \E id \in FileIds : Load(s, id)
          \/ \E v \in ProcessingStatus : SetAttr(s, "status", v)
          \/ Transact(s)
    /\ UNCHANGED <<cliVars, conf, logger>>

SpecTransition == InitStore /\ [][NextTransition]_vars

\* Workers that ingest files.
NextIngest ==
    /\ \E s \in Sessions :
          \/ \E p \in Paths, h \in Hashes : AddFile(s, p, h)
          \/ Transact(s)
    /\ UNCHANGED <<cliVars, conf, logger>>

SpecIngest == InitStore /\ [][NextIngest]_vars

\* A worker that ingests one file, and may queue it for review itself, and a
\* worker that scores the file and queues it for review.
NextReview ==
    /\ \/ AddFile("w2", "/in/song.mp3", "abc123")
       \/ \E s \in Sessions, id \in FileIds : AddReview(s, id, 60)
       \/ \E id \in FileIds : Load("w1", id)
       \/ \E v \in {"ml_scoring", "review_needed"} : SetAttr("w1", "status", v)
       \/ SetAttr("w1", "confidence_score", 60)
       \/ \E s \in Sessions : Transact(s)
    /\ UNCHANGED <<cliVars, conf, logger>>

SpecReview == InitStore /\ [][NextReview]_vars

\* A worker that stores the score it computed.
NextScore ==
    /\ \/ AddFile("w1", "/in/song.mp3", "abc123")
       \/ \E id \in FileIds : Load("w1", id)
       \/ \E c \in Scores : SetAttr("w1", "confidence_score", c)
       \/ Transact("w1")
    /\ UNCHANGED <<cliVars, conf, logger>>

SpecScore == InitStore /\ [][NextScore]_vars

\* A worker that records failures and retries.
NextRetry ==
    /\ \/ AddFile("w1", "/in/song.mp3", "abc123")
       \/ \E id \in FileIds : Load("w1", id)
       \/ \E v \in ProcessingStatus : SetAttr("w1", "status", v)
       \/ SetAttr("w1", "error_message", "fingerprint failed")
       \/ /\ sess["w1"].cur.retry_count < MaxRetryCount
          /\ SetAttr("w1", "retry_count", sess["w1"].cur.retry_count + 1)
       \/ Transact("w1")
    /\ UNCHANGED <<cliVars, conf, logger>>

SpecRetry == InitStore /\ [][NextRetry]_vars

\* ConfigManager.load on every pair of files.
InitConfig ==
    /\ db = FreshDb
    /\ StoreIdle
    /\ cli = CliIdle
    /\ env = [config |-> "valid", db_ok |-> TRUE, fs_ok |-> TRUE,
              media_ok |-> TRUE, dirs |-> Folders]
    /\ conf \in ConfInputs
    /\ logger = NoLogger

NextConfig == CallLoad

SpecConfig == InitConfig /\ [][NextConfig]_vars

\* A worker that moves a file on and writes the audit trail of it.
NextAudit ==
    \/ CallInitLogger
    \/ SinkChanges
    \/ AuditLog("w1")
    \/ /\ \/ AddFile("w1", "/in/song.mp3", "abc123")
          \/ \E id \in FileIds : Load("w1", id)
          \/ \E v \in {"fingerprinting", "failed"} : SetAttr("w1", "status", v)
          \/ Transact("w1")
       /\ UNCHANGED <<cliVars, conf, logger>>

SpecAudit == InitStore /\ [][NextAudit]_vars

\* A worker that ingests a file and attaches fingerprints and metadata to
\* file ids, a second one that attaches fingerprints too.
Payloads == {"Volare", "Azzurro"}
AttachIds == {1, 2}
NextAttach ==
    /\ \/ AddFile("w1", "/in/song.mp3", "abc123")
       \/ \E t \in {"fingerprints", "media_metadata"}, fid \in AttachIds,
             p \in Payloads : AddChild("w1", NewChild(t, fid, p, FALSE, Null))
       \/ AddChild("w2", NewChild("fingerprints", 1, "Volare", FALSE, Null))
       \/ \E s \in Sessions : Transact(s)
    /\ UNCHANGED <<cliVars, conf, logger>>

SpecAttach == InitStore /\ [][NextAttach]_vars

\* A worker that places a file and records where.
NextOrganize ==
    /\ \/ AddFile("w1", "/in/song.mp3", "abc123")
       \/ \E id \in FileIds : Load("w1", id)
       \/ \E v \in {"organizing", "completed", "failed"} :
             SetAttr("w1", "status", v)
       \/ \E v \in {None, "/out/song.mp3"} : SetAttr("w1", "output_path", v)
       \/ Transact("w1")
    /\ UNCHANGED <<cliVars, conf, logger>>

SpecOrganize == InitStore /\ [][NextOrganize]_vars

\* A worker that ingests a file and stores the metadata found for it.
ItalianConfidences == {Null, Float(0), Float(92)}
NextItalian ==
    /\ \/ AddFile("w1", "/in/song.mp3", "abc123")
       \/ \E it \in BOOLEAN, c \in ItalianConfidences :
             AddChild("w1", NewChild("media_metadata", 1, "Volare", it, c))
       \/ Transact("w1")
    /\ UNCHANGED <<cliVars, conf, logger>>

SpecItalian == InitStore /\ [][NextItalian]_vars

\* ================================================================ claims
FilesOf(dbv) == Rows(dbv, "media_files")
ReviewsOf(dbv) == Rows(dbv, "review_queue")

\* The stored status of file f changes from a to b in this step.
StatusStep(f, a, b) ==
    /\ \E r \in FilesOf(db) : r.id = f /\ r.attrs.status = a
    /\ \E q \in FilesOf(db') : q.id = f /\ q.attrs.status = b
    /\ a # b

\* commit() of worker s returns successfully in this step.
Commits(s) == result[s].outcome # "ok" /\ result'[s].outcome = "ok"

\* The transitions the design allows: the pipeline's forward steps, failed and
\* skipped from every state that is not terminal, and the retry that re-enters
\* a state from failed.
Terminal == {"completed", "failed", "skipped"}
TransitionTable ==
    {<<"pending", "fingerprinting">>, <<"fingerprinting", "metadata_lookup">>,
     <<"metadata_lookup", "ml_scoring">>, <<"ml_scoring", "review_needed">>,
     <<"ml_scoring", "organizing">>, <<"review_needed", "organizing">>,
     <<"organizing", "completed">>}
    \cup ((ProcessingStatus \ Terminal) \X {"failed", "skipped"})
    \cup ({"failed"} \X (ProcessingStatus \ Terminal))

\* C1: a status change that is not in the transition table is rejected and
\* the stored status stays as it was: the stored status of a file only ever
\* changes along a pair of the table.
C1_OnlyTableTransitions ==
    [][\A f \in FileIds : \A a, b \in ProcessingStatus :
          StatusStep(f, a, b) => <<a, b>> \in TransitionTable]_vars

\* C2: of two workers that change the status of the same file from the same
\* prior status only one succeeds: a commit that changes the status succeeds
\* only if the stored status still is the one the worker had read.
C2_StatusCompareAndSwap ==
    [][\A s \in Sessions :
          (Commits(s) /\ sess[s].loaded /\ "status" \in Changed(sess[s]))
          => \E r \in FilesOf(db) :
                r.id = sess[s].id /\ r.attrs.status = sess[s].orig.status]_vars

\* No two stored files share a hash or a path.
FilesUnique(dbv) ==
    \A r, q \in FilesOf(dbv) :
       (r.file_hash = q.file_hash \/ r.original_path = q.original_path) => r = q

\* Worker s is about to emit the INSERT of a file whose hash is already
\* stored under another path.
InsertsTakenHash(s) ==
    /\ sess[s].flushing
    /\ wtxn.owner = s
    /\ sess[s].stmts # << >>
    /\ Head(sess[s].stmts).op = "insert_file"
    /\ \E r \in FilesOf(wtxn.image) :
          /\ r.file_hash = Head(sess[s].stmts).hash
          /\ r.original_path # Head(sess[s].stmts).path

\* Uniqueness, the read back of what a commit inserted, and the refused insert
\* that raises err and adds no row.
UniqueFilesStep(err) ==
    /\ FilesUnique(db')
    /\ \A s \in Sessions :
          Commits(s) =>
             \A i \in 1..Len(sess[s].new_files) :
                \E r \in FilesOf(db') :
                   /\ r.original_path = sess[s].new_files[i].original_path
                   /\ r.file_hash = sess[s].new_files[i].file_hash
    /\ \A s \in Sessions :
          (InsertsTakenHash(s) /\ result'[s] # result[s]) =>
             /\ result'[s].outcome = err
             /\ db' = db
             /\ wtxn' = NoTxn

HasReview(dbv, f) == \E r \in ReviewsOf(dbv) : r.media_file_id = f
StatusIs(dbv, f, v) == \E r \in FilesOf(dbv) : r.id = f /\ r.attrs.status = v

\* The unit of work of enqueue_review for file f: one session holds the new
\* ReviewQueue row of f and the change of f's status to review_needed.
Enqueues(w, f) ==
    /\ w.loaded
    /\ w.id = f
    /\ w.cur.status = "review_needed"
    /\ w.orig.status # "review_needed"
    /\ \E i \in 1..Len(w.new_reviews) : w.new_reviews[i].media_file_id = f

C5_ScoreInUnitInterval ==
    \A r \in FilesOf(db) :
       0 <= r.attrs.confidence_score /\ r.attrs.confidence_score <= 100

\* C6: every stored change of a status into failed comes with an
\* error_message and with retry_count one higher than before.
C6_FailedCarriesErrorAndRetry ==
    [][\A r \in FilesOf(db) : \A q \in FilesOf(db') :
          (r.id = q.id /\ r.attrs.status # "failed" /\ q.attrs.status = "failed")
          => /\ q.attrs.error_message # None
             /\ q.attrs.retry_count = r.attrs.retry_count + 1]_vars

\* C7: a file is stored first as pending, and a stored status of completed or
\* skipped never changes again.
C7_PendingFirstTerminalLast ==
    [][\A q \in FilesOf(db') :
          /\ (\A r \in FilesOf(db) : r.id # q.id) => q.attrs.status = "pending"
          /\ \A r \in FilesOf(db) :
                (r.id = q.id /\ r.attrs.status \in {"completed", "skipped"})
                => q.attrs.status = r.attrs.status]_vars

\* init_database ran to its end in this step.
InitDatabaseDone ==
    /\ cli.pc \in {"initdb_create", "ctor_database"}
    /\ Len(cli'.steps) > Len(cli.steps)

\* C8: schema creation is idempotent and not destructive.  No step of main()
\* drops a table or changes a row; init_database leaves every table of the
\* schema in place, changes nothing in a store that has them all, and
\* --init-db then returns 0.
C8_CreateIsIdempotent ==
    [][(cli' # cli) =>
          /\ \A t \in DOMAIN db : t \in DOMAIN db' /\ db'[t] = db[t]
          /\ InitDatabaseDone =>
                /\ MetadataTables \subseteq DOMAIN db'
                /\ (MetadataTables \subseteq DOMAIN db) => db' = db
                /\ (cli.pc = "initdb_create") =>
                      cli'.pc = "returned" /\ cli'.ret = 0]_vars

\* C8 witness: --init-db has returned 0 on a store that already held rows,
\* and the rows are there.
C8_InitDbOverRows ==
    /\ cli.pc = "returned"
    /\ cli.mode = "init_db"
    /\ cli.ret = 0
    /\ cli.found = "rows"
    /\ FilesOf(db) # {}

\* The tables of the entities of the data model: MediaFile, Fingerprint,
\* MediaMetadata, MLFeatures, MLModel, ReviewQueue, MLFeedback, ProcessingLog.
EntityTables ==
    {"media_files", "fingerprints", "media_metadata", "ml_features",
     "ml_models", "review_queue", "ml_feedback", "processing_logs"}

\* --init-db whose init_database ran on a fresh database path.
InitDbOnFreshPath == cli.mode = "init_db" /\ cli.found = "fresh"

\* C9 (as amended): --init-db on a fresh database path creates the eight
\* tables, one for each entity of the data model, and exits 0.
C9_FreshInitCreatesEightTables ==
    InitDbOnFreshPath =>
       /\ cli.pc = "returned"
       /\ cli.ret = 0
       /\ DOMAIN db = EntityTables
       /\ Cardinality(DOMAIN db) = 8

\* C9 as first stated: nine tables.
C9_FreshInitCreatesNineTables ==
    InitDbOnFreshPath =>
       /\ cli.pc = "returned"
       /\ cli.ret = 0
       /\ Cardinality(DOMAIN db) = 9

\* C9 witness: --init-db has run on a fresh path and returned.
C9_FreshInitReturned == InitDbOnFreshPath /\ cli.pc = "returned"

\* The invocation went through to its normal end: --init-db created the
\* schema, or run() ended with the shutdown.
Completed ==
    \/ cli.mode = "init_db" /\ cli.steps = <<"load_config", "init_database">>
    \/ /\ cli.mode = "run"
       /\ cli.steps # << >>
       /\ cli.steps[Len(cli.steps)] = "shutdown"

\* The exit codes of an invocation whose main() has returned.
ExitCodes ==
    cli.pc = "returned" =>
       /\ cli.ret \in {0, 1}
       /\ cli.ret = 0 <=> Completed
       /\ cli.ret = 1 <=> cli.exc \in ExceptionClasses
       /\ env.config \in {"missing", "invalid", "malformed"} => cli.ret = 1
       /\ (cli.ret = 0 /\ cli.exc # "none") =>
             cli.exc = "KeyboardInterrupt" /\ cli.at = "run_body"

\* C10 (as amended): main() returns 0 exactly when the invocation ends normally
\* or by the shutdown, and 1 on a missing config file, on invalid config
\* values and on every other error that derives from Exception; what leaves
\* main() as an exception is the SystemExit of the argument parser or a
\* KeyboardInterrupt outside run()'s try block.
C10_ExitCodesAndEscapes ==
    /\ ExitCodes
    /\ cli.pc = "raised" =>
          /\ cli.exc \notin ExceptionClasses
          /\ cli.escaped \in {"SystemExit(0)", "SystemExit(2)", "KeyboardInterrupt"}
          /\ cli.escaped # "KeyboardInterrupt" => cli.at = "parse"
          /\ cli.at # "run_body"

\* C10 as first stated: the exit codes, and no exception leaves main().
C10_NoExceptionEscapes == ExitCodes /\ cli.pc # "raised"

\* C10 witness: main() has returned 1 for config values the Config model
\* refuses.
C10_InvalidConfigExitsOne ==
    /\ cli.pc = "returned"
    /\ cli.ret = 1
    /\ cli.exc = "ValueError"
    /\ env.config = "invalid"

\* ------------------------------------------------------------------ C11
\* A secret that is present and not empty: a string other than "" or a number
\* other than 0.
SecretGiven(secrets) ==
    /\ secrets.file = "mapping"
    /\ secrets.tmdb_api_key.type \in {"str", "int"}
    /\ secrets.tmdb_api_key.v \notin {"", "0"}

\* The api_key the main file sets, "" when it sets none.
MainApiKey(main) == IF main.api_key.type = "str" THEN main.api_key.v ELSE ""

\* C11: whatever the main file and the secrets file hold, load() yields
\* metadata.tmdb.api_key equal to the secret when the secrets file gives a
\* present, non-empty tmdb_api_key and equal to the main file's value (default
\* "") otherwise, and a load that succeeds without the secrets file succeeds
\* with it.
C11_SecretOverridesApiKey ==
    conf.out # NotLoaded =>
        LET without == ConfigManagerLoad(conf.main, NoSecrets("missing"), conf.fs_ok)
        IN /\ without.exc = "none" => conf.out.exc = "none"
           /\ (conf.out.exc = "none" /\ SecretGiven(conf.secrets)) =>
                 conf.out.api_key = conf.secrets.tmdb_api_key.v
           /\ (conf.out.exc = "none" /\ ~SecretGiven(conf.secrets)) =>
                 conf.out.api_key = MainApiKey(conf.main)

\* ------------------------------------------------------------------ C12
LoggingErrors == {"RuntimeError"}

\* An audit line is appended in this step while the sink takes no writes.
AppendsToDeadSink ==
    /\ logger.manager /\ ~logger.sink_ok
    /\ logger' # logger /\ logger'.sink_ok = logger.sink_ok

\* C12: a log append never fails the operation that calls it: no logging
\* error reaches the caller, also when the sink is unavailable or the logger
\* was never initialised, and a line that could not be written is reported on
\* the fallback channel.
C12_LogAppendNeverRaises ==
    [][/\ \A s \in Sessions : result'[s].outcome \notin LoggingErrors
       /\ AppendsToDeadSink => logger'.reported]_vars

\* ------------------------------------------------------------------ C13
FileIdsOf(dbv) == {r.id : r \in FilesOf(dbv)}

\* C13: whatever has been attached, a MediaFile has at most one Fingerprint, one
\* MediaMetadata and one MLFeatures row, and no child row is stored for a file
\* id that is unknown or null (such an attach fails with NotFoundError and
\* creates no row).
C13_ChildrenOneToOne ==
    \A t \in ChildTables :
        /\ \A r1, r2 \in Rows(db, t) :
              r1.media_file_id = r2.media_file_id => r1 = r2
        /\ \A r \in Rows(db, t) : r.media_file_id \in FileIdsOf(db)

\* ------------------------------------------------------------------ C14
\* C14: in every state the output_path of a stored MediaFile is non-null only
\* if its status is completed; no operation sets output_path under any other
\* status.
C14_OutputPathOnlyWhenCompleted ==
    \A r \in FilesOf(db) :
        r.attrs.output_path # None => r.attrs.status = "completed"

\* ------------------------------------------------------------------ C15
\* The MediaMetadata objects with is_italian = true in the unit of work of s.
ItalianWrites(s) ==
    {c \in {sess[s].new_children[i] : i \in 1..Len(sess[s].new_children)} :
        c.table = "media_metadata" /\ c.is_italian}

\* C15: every stored MediaMetadata row with is_italian = true has a non-null
\* italian_confidence; a committed write of is_italian = true with confidence
\* 0.92 reads back with the same values, and a write of is_italian = true with
\* a null confidence fails (ValidationError) and stores nothing.
C15_ItalianCarriesConfidence ==
    [][/\ \A r \in Rows(db', "media_metadata") :
             r.is_italian => r.italian_confidence # Null
       /\ \A s \in Sessions : Commits(s) =>
             \A c \in ItalianWrites(s) :
                /\ c.italian_confidence # Null
                /\ \E r \in Rows(db', "media_metadata") :
                      /\ r.media_file_id = c.media_file_id
                      /\ r.is_italian
                      /\ r.italian_confidence = c.italian_confidence]_vars

\* ------------------------------------------------------------------ C16
StartupSteps == <<"load_config", "init_logger", "init_database", "validate_paths">>

IsPrefix(a, b) == Len(a) <= Len(b) /\ \A i \in 1..Len(a) : a[i] = b[i]

StartupDone == IsPrefix(StartupSteps, cli.steps)

\* How often shutdown() has run in this invocation.
Shutdowns == Cardinality({i \in 1..Len(cli.steps) : cli.steps[i] = "shutdown"})

\* Ctrl+C was received inside run().
ShutdownRequested == cli.exc = "KeyboardInterrupt" /\ cli.at = "run_body"

\* C16: a default invocation loads the config, initialises the logger, opens
\* the store and creates the schema, validates the directories and then runs,
\* each step only after the earlier ones succeeded; after startup both
\* directories exist; the application idles until shutdown is requested; and
\* shutdown runs exactly once on every exit path of run().
C16_StartupOrderIdleShutdownOnce ==
    cli.mode = "run" =>
        /\ IsPrefix(cli.steps, StartupSteps) \/ StartupDone
        /\ StartupDone => Folders \subseteq env.dirs
        /\ Shutdowns > 0 => ShutdownRequested
        /\ Shutdowns <= 1
        /\ (StartupDone /\ cli.pc = "returned") => Shutdowns = 1

\* ------------------------------------------------------------------ C17
\* The triggers of section 4.1 for a file in ml_scoring with score x, in
\* hundredths, under the review thresholds r.
ScoreRange == 0..100
ReviewNeededEnabled(r, x) == x < r.confidence_threshold
OrganizingEnabled(r, x) == x >= r.auto_approve_above
ExactlyOneEnabled(r, x) == ReviewNeededEnabled(r, x) # OrganizingEnabled(r, x)
NeitherEnabled(r, x) == ~ReviewNeededEnabled(r, x) /\ ~OrganizingEnabled(r, x)

\* C17 (as amended): under a configuration the loader accepts, every score in
\* [0, 1] enables exactly one of the two triggers if and only if
\* confidence_threshold = auto_approve_above; the loader accepts other
\* configurations too, and under its defaults (0.75, 0.95) no score enables
\* both triggers and exactly the scores in [0.75, 0.95) enable neither.
C17_ExactlyOneIffThresholdsEqual ==
    conf.out.exc = "none" =>
        LET r == conf.out.review
        IN /\ (\A x \in ScoreRange : ExactlyOneEnabled(r, x))
                 <=> r.confidence_threshold = r.auto_approve_above
           /\ ~conf.main.review.given =>
                 \A x \in ScoreRange :
                    /\ ~(ReviewNeededEnabled(r, x) /\ OrganizingEnabled(r, x))
                    /\ NeitherEnabled(r, x) <=> (75 <= x /\ x < 95)

\* C17 as first stated: under every accepted configuration every score in
\* [0, 1] enables exactly one of the two triggers.
C17_ExactlyOneEnabled ==
    conf.out.exc = "none" =>
        \A x \in ScoreRange : ExactlyOneEnabled(conf.out.review, x)

\* C17 witness: a config file without a review section has been loaded, and a
\* score of 0.80 enables neither trigger.
C17_DefaultsLeaveGap ==
    /\ conf.out.exc = "none"
    /\ ~conf.main.review.given
    /\ NeitherEnabled(conf.out.review, 80)

====
